---- MODULE Spec2Model ----
(***************************************************************************)
(* netlib::network::tcp::socket and netlib::network::tcp::server           *)
(* (c++/server/include/Netlib.hpp) as a state machine over a small pool of *)
(* socket objects, a small descriptor table of the operating system and    *)
(* one server object.                                                      *)
(*                                                                         *)
(* Every socket member function is one action.  The outcome of each OS     *)
(* call the member makes is chosen by the environment among the results    *)
(* the call can have on the descriptor it is given; the member's own code  *)
(* decides what happens to the object after each outcome.                  *)
(*                                                                         *)
(* server::run is a sequence of steps, one per statement, each socket call *)
(* of it being the socket action on the server's own objects.              *)
(***************************************************************************)
EXTENDS Integers, Sequences, FiniteSets

\* Number of socket objects that can be alive at once.
MaxSockets == 2

\* Number of descriptors the OS can hand out (they are numbered 1..MaxFd).
MaxFd == 2

\* socket(void): fd_(-1)
NoFd == -1

\* socket(void): port_(12345)
DefaultPort == 12345

\* socket(void): host_("127.0.0.1")
DefaultHost == "127.0.0.1"

Sockets == 1..MaxSockets
Fds == 1..MaxFd

\* The (host, port) arguments the callers pass, and the peers that connect.
\* The second one tells a changed host_ and port_ from unchanged ones.
Addrs == {<<DefaultHost, DefaultPort>>, <<"10.0.0.2", 80>>}

\* What the OS knows about a descriptor number.
\*   closed    : not an open descriptor (EBADF)
\*   fresh     : returned by ::socket, neither bound nor connected
\*   bound     : ::bind succeeded
\*   listening : ::listen succeeded
\*   connected : ::connect succeeded, or returned by ::accept
FdStates == {"closed", "fresh", "bound", "listening", "connected"}

VARIABLES
  alive,             \* alive[s]: object s is between its constructor and its destructor
  fd_,               \* socket::fd_
  host_,             \* socket::host_
  port_,             \* socket::port_
  is_socket_bound_,  \* socket::is_socket_bound_
  os,                \* os[f]: the OS's state of descriptor number f
  hist,              \* hist[s]: which role calls have succeeded on the value held by s
  last,              \* the call that ran last, its OS calls and how it returned
  addrinfo_,         \* socket::addrinfo_: the address ::getaddrinfo resolved last
  v_addrinfo_,       \* socket::v_addrinfo_: the address the descriptor was created for
  server,            \* the server object: "none", "alive", "destroying", "gone"
  is_running_,       \* server::is_running_
  callback_,         \* server::callback_: "null", or what the registered function does
  frame,             \* frame[t]: thread t's place in run() and the locals of process()
  result             \* result[t]: how thread t's last server call ended

\* The socket objects and the OS.
svars == <<alive, fd_, host_, port_, is_socket_bound_, os, hist, last>>

\* The two address members of the sockets.
avars == <<addrinfo_, v_addrinfo_>>

\* The server object and the threads calling it.
rvars == <<server, is_running_, callback_, frame, result>>

vars == <<alive, fd_, host_, port_, is_socket_bound_, os, hist, last,
          addrinfo_, v_addrinfo_, server, is_running_, callback_, frame, result>>

----------------------------------------------------------------------------
\* OS call results as the members see them.

Ok(c) == [call |-> c, rc |-> 0, errno |-> "none"]
Got(c, n) == [call |-> c, rc |-> n, errno |-> "none"]
Err(c, e) == [call |-> c, rc |-> -1, errno |-> e]

\* The names of the OS calls in a call sequence.
Issued(calls) == {calls[i].call : i \in 1..Len(calls)}

\* The result record of OS call c in a call sequence (c occurs at most once).
ResultOf(calls, c) == CHOOSE r \in {calls[i] : i \in 1..Len(calls)} : r.call = c

NoHist == [bind |-> FALSE, connect |-> FALSE, connect_after_bind |-> FALSE, copy |-> FALSE]

\* std::terminate was called: a destructor let an exception escape.
Terminated == last.exc = "terminate"

\* The call that ran: what it was, on which object, with which other object
\* (source of a copy, object returned by accept), the exception that left it
\* ("none": it returned), the statement that threw, the OS calls it made, and
\* for a close whether the call before it was a close of the same object.
Return(op, s, arg, exc, site, calls) ==
  last' = [op |-> op, sock |-> s, arg |-> arg, exc |-> exc, site |-> site,
           calls |-> calls,
           again |-> (op = "close" /\ last.op = "close" /\ last.sock = s)]

FreeFds == {f \in Fds : os[f] = "closed"}

\* ::socket returns the lowest descriptor number that is not open.
LowestFree == CHOOSE f \in FreeFds : \A g \in FreeFds : f <= g

----------------------------------------------------------------------------
\* Constructors, copies, destructor.

\* socket(void)
socket_default(s) ==
  /\ ~Terminated /\ ~alive[s]
  /\ alive' = [alive EXCEPT ![s] = TRUE]
  /\ fd_' = [fd_ EXCEPT ![s] = NoFd]
  /\ host_' = [host_ EXCEPT ![s] = DefaultHost]
  /\ port_' = [port_ EXCEPT ![s] = DefaultPort]
  /\ is_socket_bound_' = [is_socket_bound_ EXCEPT ![s] = FALSE]
  /\ hist' = [hist EXCEPT ![s] = NoHist]
  /\ Return("socket", s, 0, "none", "none", <<>>)
  /\ UNCHANGED os

\* socket(int fd, const std::string &host, unsigned int port): the
\* constructor accept() returns through.
socket_from_fd(s, f, h, p) ==
  /\ ~alive[s]
  /\ alive' = [alive EXCEPT ![s] = TRUE]
  /\ fd_' = [fd_ EXCEPT ![s] = f]
  /\ host_' = [host_ EXCEPT ![s] = h]
  /\ port_' = [port_ EXCEPT ![s] = p]
  /\ is_socket_bound_' = [is_socket_bound_ EXCEPT ![s] = FALSE]
  /\ hist' = [hist EXCEPT ![s] = NoHist]

\* A copy that would not duplicate the descriptor (the copy starts unopened).
CopyFields_no_descriptor(s, t) ==
  /\ fd_' = [fd_ EXCEPT ![s] = NoFd]
  /\ host_' = [host_ EXCEPT ![s] = host_[t]]
  /\ port_' = [port_ EXCEPT ![s] = port_[t]]
  /\ is_socket_bound_' = [is_socket_bound_ EXCEPT ![s] = is_socket_bound_[t]]
  /\ hist' = [hist EXCEPT ![s] = [hist[t] EXCEPT !.copy = TRUE]]
  /\ UNCHANGED os

\* The member-wise copy both defaulted copy operations make.
CopyFields(s, t) ==
  /\ fd_' = [fd_ EXCEPT ![s] = fd_[t]]
  /\ host_' = [host_ EXCEPT ![s] = host_[t]]
  /\ port_' = [port_ EXCEPT ![s] = port_[t]]
  /\ is_socket_bound_' = [is_socket_bound_ EXCEPT ![s] = is_socket_bound_[t]]
  /\ hist' = [hist EXCEPT ![s] = [hist[t] EXCEPT !.copy = TRUE]]
  /\ UNCHANGED os

\* socket(const socket &) = default: s is constructed as a copy of t.
socket_copy(s, t) ==
  /\ ~Terminated /\ ~alive[s] /\ alive[t]
  /\ alive' = [alive EXCEPT ![s] = TRUE]
  /\ CopyFields(s, t)
  /\ Return("copy", s, t, "none", "none", <<>>)

\* socket &operator=(const socket &) = default: s = t.
socket_assign(s, t) ==
  /\ ~Terminated /\ alive[s] /\ alive[t] /\ s # t
  /\ UNCHANGED alive
  /\ CopyFields(s, t)
  /\ Return("assign", s, t, "none", "none", <<>>)

----------------------------------------------------------------------------
\* The OS side of the calls.

\* The OS's state of the descriptor a call is given (-1 is never open).
OsState(f) == IF f \in Fds THEN os[f] ELSE "closed"

\* ::close(f): EBADF on a descriptor that is not open.  On an open one it
\* succeeds, or fails (EINTR, EIO); the descriptor is released either way:
\* the library is written for Linux (line 99 names /proc/sys/net/core), and
\* Linux releases the descriptor before ::close can fail.
OsClose(f) ==
  IF OsState(f) = "closed"
    THEN {[c |-> Err("close", "EBADF"), os |-> os]}
    ELSE {[c |-> Ok("close"), os |-> [os EXCEPT ![f] = "closed"]],
          [c |-> Err("close", "EIO"), os |-> [os EXCEPT ![f] = "closed"]]}

----------------------------------------------------------------------------
\* socket::close and the destructor.

\* The body of close(): the descriptor the object holds afterwards, the OS
\* state, the OS calls made and whether the body threw.
close_body(s) ==
  IF fd_[s] # NoFd
    THEN {[fd |-> IF o.c.rc = -1 THEN fd_[s] ELSE NoFd,
           os |-> o.os, calls |-> <<o.c>>, threw |-> (o.c.rc = -1)]
          : o \in OsClose(fd_[s])}
    ELSE {[fd |-> NoFd, os |-> os, calls |-> <<>>, threw |-> FALSE]}

\* A close() that would also reset is_socket_bound_.
close_resets_bound(s) ==
  /\ ~Terminated /\ alive[s]
  /\ \E o \in close_body(s) :
       /\ fd_' = [fd_ EXCEPT ![s] = o.fd]
       /\ os' = o.os
       /\ IF o.threw
            THEN Return("close", s, 0, "runtime_error", "close", o.calls)
            ELSE Return("close", s, 0, "none", "none", o.calls)
  /\ is_socket_bound_' = [is_socket_bound_ EXCEPT ![s] = FALSE]
  /\ UNCHANGED <<alive, host_, port_, hist>>

\* void close(void)
close(s) ==
  /\ ~Terminated /\ alive[s]
  /\ \E o \in close_body(s) :
       /\ fd_' = [fd_ EXCEPT ![s] = o.fd]
       /\ os' = o.os
       /\ IF o.threw
            THEN Return("close", s, 0, "runtime_error", "close", o.calls)
            ELSE Return("close", s, 0, "none", "none", o.calls)
  /\ UNCHANGED <<alive, host_, port_, is_socket_bound_, hist>>

\* ~socket(void) { close(); }  An exception leaving the destructor ends the
\* program (std::terminate); otherwise the object is gone.
socket_dtor(s) ==
  /\ ~Terminated /\ alive[s]
  /\ \E o \in close_body(s) :
       /\ os' = o.os
       /\ IF o.threw
            THEN /\ Return("dtor", s, 0, "terminate", "close", o.calls)
                 /\ UNCHANGED <<alive, fd_, host_, port_, is_socket_bound_, hist>>
            ELSE /\ Return("dtor", s, 0, "none", "none", o.calls)
                 /\ alive' = [alive EXCEPT ![s] = FALSE]
                 /\ fd_' = [fd_ EXCEPT ![s] = NoFd]
                 /\ host_' = [host_ EXCEPT ![s] = DefaultHost]
                 /\ port_' = [port_ EXCEPT ![s] = DefaultPort]
                 /\ is_socket_bound_' = [is_socket_bound_ EXCEPT ![s] = FALSE]
                 /\ hist' = [hist EXCEPT ![s] = NoHist]

----------------------------------------------------------------------------
\* Address resolution and descriptor creation.

\* get_addr_info(): ::getaddrinfo succeeds or fails.
get_addr_info == {Ok("getaddrinfo"), Err("getaddrinfo", "EAI_FAIL")}

\* create_socket(): returns at once when the object holds a descriptor;
\* otherwise walks the candidates until ::socket succeeds, and throws when
\* none did.  The descriptor held afterwards, the OS state, the OS calls.
create_socket(s) ==
  IF fd_[s] # NoFd
    THEN {[fd |-> fd_[s], os |-> os, calls |-> <<>>, threw |-> FALSE]}
    ELSE {[fd |-> NoFd, os |-> os, calls |-> <<Err("socket", "EMFILE")>>, threw |-> TRUE]}
         \cup (IF FreeFds # {}
                 THEN {[fd |-> LowestFree, os |-> [os EXCEPT ![LowestFree] = "fresh"],
                        calls |-> <<Got("socket", LowestFree)>>, threw |-> FALSE]}
                 ELSE {})

----------------------------------------------------------------------------
\* The OS calls on a descriptor in state st: the results each can have.

\* ::setsockopt(SO_REUSEADDR)
OsSetsockopt(f, st) ==
  IF st = "closed" THEN {Err("setsockopt", "EBADF")}
  ELSE {Ok("setsockopt"), Err("setsockopt", "ENOPROTOOPT")}

\* ::bind: only a descriptor that is neither bound nor connected can be
\* bound, and the address may be refused.
OsBind(f, st) ==
  IF st = "fresh" THEN {Ok("bind"), Err("bind", "EADDRINUSE")}
  ELSE {Err("bind", IF st = "closed" THEN "EBADF" ELSE "EINVAL")}

\* ::listen: a connected descriptor cannot listen; an unbound one is bound
\* to an ephemeral port by the OS.
OsListen(f, st) ==
  IF st \in {"fresh", "bound", "listening"} THEN {Ok("listen"), Err("listen", "EADDRINUSE")}
  ELSE {Err("listen", IF st = "closed" THEN "EBADF" ELSE "EINVAL")}

\* ::accept: a new connected descriptor from a listening one, when the OS
\* has a descriptor number left; an error otherwise.
OsAccept(f, st) ==
  {Err("accept", IF st = "closed" THEN "EBADF" ELSE IF st = "listening" THEN "EMFILE" ELSE "EINVAL")}
  \cup (IF st = "listening" /\ FreeFds # {} THEN {Got("accept", LowestFree)} ELSE {})

\* getnameinfo on the peer address ::accept filled in.
OsGetnameinfo == {Ok("getnameinfo"), Err("getnameinfo", "EAI_FAIL")}

\* ::connect: a descriptor that is not yet connected and not listening can
\* connect, and the peer may refuse.
OsConnect(f, st) ==
  IF st \in {"fresh", "bound"} THEN {Ok("connect"), Err("connect", "ECONNREFUSED")}
  ELSE {Err("connect", IF st = "closed" THEN "EBADF" ELSE "EISCONN")}

\* ::send: bytes written on a connected descriptor, or an error.
OsSend(f, st) ==
  IF st = "connected" THEN {Got("send", 1), Err("send", "EPIPE")}
  ELSE {Err("send", IF st = "closed" THEN "EBADF" ELSE "ENOTCONN")}

\* ::recv: bytes read (1: some), 0 when the peer has closed, or an error.
OsRecv(f, st) ==
  IF st = "connected" THEN {Got("recv", 1), Got("recv", 0), Err("recv", "ECONNRESET")}
  ELSE {Err("recv", IF st = "closed" THEN "EBADF" ELSE "ENOTCONN")}

----------------------------------------------------------------------------
\* Server operations.

\* void bind(const std::string &host, unsigned int port)
bind(s, h, p) ==
  /\ ~Terminated /\ alive[s]
  /\ host_' = [host_ EXCEPT ![s] = h]
  /\ port_' = [port_ EXCEPT ![s] = p]
  /\ UNCHANGED alive
  /\ \E g \in get_addr_info :
       IF g.rc # 0
         THEN /\ Return("bind", s, 0, "runtime_error", "get_addr_info", <<g>>)
              /\ UNCHANGED <<fd_, os, is_socket_bound_, hist>>
         ELSE \E c \in create_socket(s) :
           /\ fd_' = [fd_ EXCEPT ![s] = c.fd]
           /\ IF c.threw
                THEN /\ Return("bind", s, 0, "runtime_error", "create_socket", <<g>> \o c.calls)
                     /\ os' = c.os
                     /\ UNCHANGED <<is_socket_bound_, hist>>
                ELSE \E o \in OsSetsockopt(c.fd, c.os[c.fd]) :
                  IF o.rc = -1
                    THEN /\ Return("bind", s, 0, "runtime_error", "setsockopt",
                                   <<g>> \o c.calls \o <<o>>)
                         /\ os' = c.os
                         /\ UNCHANGED <<is_socket_bound_, hist>>
                    ELSE \E b \in OsBind(c.fd, c.os[c.fd]) :
                      IF b.rc = -1
                        THEN /\ Return("bind", s, 0, "runtime_error", "bind",
                                       <<g>> \o c.calls \o <<o, b>>)
                             /\ os' = c.os
                             /\ UNCHANGED <<is_socket_bound_, hist>>
                        ELSE /\ Return("bind", s, 0, "none", "none",
                                       <<g>> \o c.calls \o <<o, b>>)
                             /\ os' = [c.os EXCEPT ![c.fd] = "bound"]
                             /\ is_socket_bound_' = [is_socket_bound_ EXCEPT ![s] = TRUE]
                             /\ hist' = [hist EXCEPT ![s].bind = TRUE]

\* listen() without its test.
listen_guard_missing(s) == FALSE

\* listen(): the test of line 90.
listen_guard(s) == ~is_socket_bound_[s]

\* void listen(unsigned int backlog).  A backlog above SOMAXCONN only prints
\* a warning, so the backlog is left out.
listen(s) ==
  /\ ~Terminated /\ alive[s]
  /\ UNCHANGED <<alive, fd_, host_, port_, is_socket_bound_, hist>>
  /\ IF listen_guard(s)
       THEN /\ Return("listen", s, 0, "logic_error", "listen", <<>>)
            /\ UNCHANGED os
       ELSE \E l \in OsListen(fd_[s], OsState(fd_[s])) :
         IF l.rc = -1
           THEN /\ Return("listen", s, 0, "runtime_error", "listen", <<l>>)
                /\ UNCHANGED os
           ELSE /\ Return("listen", s, 0, "none", "none", <<l>>)
                /\ os' = [os EXCEPT ![fd_[s]] = "listening"]

\* tcp::socket accept(void).  The socket it returns is constructed in place
\* in object c (the caller's variable): socket(new_fd, host, port).
accept(s, c, h, p) ==
  /\ ~Terminated /\ alive[s]
  /\ \E a \in OsAccept(fd_[s], OsState(fd_[s])) :
       IF a.rc = -1
         THEN /\ Return("accept", s, 0, "runtime_error", "accept", <<a>>)
              /\ UNCHANGED <<alive, fd_, host_, port_, is_socket_bound_, os, hist>>
         ELSE
           /\ ~alive[c]
           /\ os' = [os EXCEPT ![a.rc] = "connected"]
           /\ \E n \in OsGetnameinfo :
                IF n.rc # 0
                  THEN /\ Return("accept", s, 0, "runtime_error", "getnameinfo", <<a, n>>)
                       /\ UNCHANGED <<alive, fd_, host_, port_, is_socket_bound_, hist>>
                  ELSE /\ Return("accept", s, c, "none", "none", <<a, n>>)
                       /\ socket_from_fd(c, a.rc, h, p)

----------------------------------------------------------------------------
\* Client operations.

\* connect() without its test.
connect_guard_missing(s) == FALSE

\* connect(): the test of line 134.
connect_guard(s) == is_socket_bound_[s]

\* void connect(const std::string &host, unsigned int port)
connect(s, h, p) ==
  /\ ~Terminated /\ alive[s]
  /\ UNCHANGED <<alive, is_socket_bound_>>
  /\ IF connect_guard(s)
       THEN /\ Return("connect", s, 0, "logic_error", "connect", <<>>)
            /\ UNCHANGED <<fd_, host_, port_, os, hist>>
       ELSE
         /\ host_' = [host_ EXCEPT ![s] = h]
         /\ port_' = [port_ EXCEPT ![s] = p]
         /\ \E g \in get_addr_info :
              IF g.rc # 0
                THEN /\ Return("connect", s, 0, "runtime_error", "get_addr_info", <<g>>)
                     /\ UNCHANGED <<fd_, os, hist>>
                ELSE \E c \in create_socket(s) :
                  /\ fd_' = [fd_ EXCEPT ![s] = c.fd]
                  /\ IF c.threw
                       THEN /\ Return("connect", s, 0, "runtime_error", "create_socket",
                                      <<g>> \o c.calls)
                            /\ os' = c.os
                            /\ UNCHANGED hist
                       ELSE \E o \in OsConnect(c.fd, c.os[c.fd]) :
                         IF o.rc = -1
                           THEN /\ Return("connect", s, 0, "runtime_error", "connect",
                                          <<g>> \o c.calls \o <<o>>)
                                /\ os' = c.os
                                /\ UNCHANGED hist
                           ELSE /\ Return("connect", s, 0, "none", "none",
                                          <<g>> \o c.calls \o <<o>>)
                                /\ os' = [c.os EXCEPT ![c.fd] = "connected"]
                                /\ hist' = [hist EXCEPT
                                     ![s].connect = TRUE,
                                     ![s].connect_after_bind = @ \/ hist[s].bind]

\* send(): the test of line 157.
send_guard(s) == fd_[s] = NoFd

\* std::size_t send(const std::vector<char> &message, std::size_t message_len)
\* (send(const std::string &) forwards to it).  res is a std::size_t, and
\* res == -1 compares it with SIZE_MAX, which is what ::send's -1 became.
send(s) ==
  /\ ~Terminated /\ alive[s]
  /\ UNCHANGED <<alive, fd_, host_, port_, is_socket_bound_, os, hist>>
  /\ IF send_guard(s)
       THEN Return("send", s, 0, "logic_error", "send", <<>>)
       ELSE \E o \in OsSend(fd_[s], OsState(fd_[s])) :
         IF o.rc = -1
           THEN Return("send", s, 0, "runtime_error", "send", <<o>>)
           ELSE Return("send", s, 0, "none", "none", <<o>>)

\* receive() testing for another sentinel than the constructor's.
receive_guard_wrong_sentinel(s) == fd_[s] = 0

\* receive(): the test of line 170.
receive_guard(s) == fd_[s] = NoFd

\* The switch as it would be if case -1 did not match ::recv's -1: an error
\* falls to the default label and receive returns normally.
receive_switch_no_error_case(s, r) ==
  IF r.rc = 0
    THEN {[fd |-> o.fd, os |-> o.os, calls |-> <<r>> \o o.calls,
           exc |-> IF o.threw THEN "runtime_error" ELSE "none",
           site |-> IF o.threw THEN "close" ELSE "none"]
          : o \in close_body(s)}
  ELSE {[fd |-> fd_[s], os |-> os, calls |-> <<r>>, exc |-> "none", site |-> "none"]}

\* receive(): the switch on bytes_read, given ::recv's result r.  bytes_read
\* is a std::size_t; case -1 is SIZE_MAX and matches ::recv's -1.
receive_switch(s, r) ==
  IF r.rc = -1
    THEN {[fd |-> fd_[s], os |-> os, calls |-> <<r>>, exc |-> "runtime_error", site |-> "recv"]}
  ELSE IF r.rc = 0
    THEN {[fd |-> o.fd, os |-> o.os, calls |-> <<r>> \o o.calls,
           exc |-> IF o.threw THEN "runtime_error" ELSE "none",
           site |-> IF o.threw THEN "close" ELSE "none"]
          : o \in close_body(s)}
  ELSE {[fd |-> fd_[s], os |-> os, calls |-> <<r>>, exc |-> "none", site |-> "none"]}

\* std::vector<char> receive(std::size_t size_to_read), size_to_read > 0.
receive(s) ==
  /\ ~Terminated /\ alive[s]
  /\ UNCHANGED <<alive, host_, port_, is_socket_bound_, hist>>
  /\ IF receive_guard(s)
       THEN /\ Return("receive", s, 0, "logic_error", "receive", <<>>)
            /\ UNCHANGED <<fd_, os>>
       ELSE \E r \in OsRecv(fd_[s], OsState(fd_[s])) :
              \E o \in receive_switch(s, r) :
                /\ fd_' = [fd_ EXCEPT ![s] = o.fd]
                /\ os' = o.os
                /\ Return("receive", s, 0, o.exc, o.site, o.calls)

----------------------------------------------------------------------------
\* The state machine.

\* The threads that call the server.
Threads == {"t1", "t2"}

\* addrinfo_({0}), v_addrinfo_({0}): the address members as both
\* constructors leave them.  A resolved address is written as the (host,
\* port) pair ::getaddrinfo resolved it from.
ZeroAddr == <<"", 0>>

\* A thread that is in no server call: no arguments, no locals, nothing
\* sent to a client (sent), no callback invoked (called_with, trace).
IdleFrame ==
  [pc |-> "idle", host |-> DefaultHost, port |-> DefaultPort,
   client |-> 0, client_fd |-> NoFd,
   rcv |-> <<>>, cmd |-> <<>>, response |-> <<>>,
   sent |-> <<>>, called_with |-> <<>>,
   exc |-> "none", site |-> "none", trace |-> <<>>, closes |-> 0]

NoResult == [op |-> "none", exc |-> "none", site |-> "none", again |-> FALSE]

Init ==
  /\ alive = [s \in Sockets |-> FALSE]
  /\ fd_ = [s \in Sockets |-> NoFd]
  /\ host_ = [s \in Sockets |-> DefaultHost]
  /\ port_ = [s \in Sockets |-> DefaultPort]
  /\ is_socket_bound_ = [s \in Sockets |-> FALSE]
  /\ os = [f \in Fds |-> "closed"]
  /\ hist = [s \in Sockets |-> NoHist]
  /\ last = [op |-> "none", sock |-> 0, arg |-> 0, exc |-> "none", site |-> "none",
             calls |-> <<>>, again |-> FALSE]
  /\ addrinfo_ = [s \in Sockets |-> ZeroAddr]
  /\ v_addrinfo_ = [s \in Sockets |-> ZeroAddr]
  /\ server = "none"
  /\ is_running_ = FALSE
  /\ callback_ = "null"
  /\ frame = [t \in Threads |-> IdleFrame]
  /\ result = [t \in Threads |-> NoResult]

\* The socket members alone: no server object is constructed, and the two
\* address members, which no member function reads back, are not followed.
SocketsOnly == UNCHANGED <<avars, rvars>>

Next ==
  \/ \E s \in Sockets : socket_default(s) /\ SocketsOnly
  \/ \E s \in Sockets : socket_dtor(s) /\ SocketsOnly
  \/ \E s \in Sockets, a \in Addrs : bind(s, a[1], a[2]) /\ SocketsOnly
  \/ \E s \in Sockets : listen(s) /\ SocketsOnly
  \/ \E s, c \in Sockets, a \in Addrs : accept(s, c, a[1], a[2]) /\ SocketsOnly
  \/ \E s \in Sockets, a \in Addrs : connect(s, a[1], a[2]) /\ SocketsOnly
  \/ \E s \in Sockets : send(s) /\ SocketsOnly
  \/ \E s \in Sockets : receive(s) /\ SocketsOnly
  \/ \E s \in Sockets : close(s) /\ SocketsOnly

\* Every member function called on objects that are never copied: each
\* object is the only holder of what it opened.
Spec == Init /\ [][Next]_vars

\* Objects that are opened, copied, assigned, closed and destroyed.
NextCopies ==
  \/ \E s \in Sockets : socket_default(s) /\ SocketsOnly
  \/ \E s, t \in Sockets : socket_copy(s, t) /\ SocketsOnly
  \/ \E s, t \in Sockets : socket_assign(s, t) /\ SocketsOnly
  \/ \E s \in Sockets : socket_dtor(s) /\ SocketsOnly
  \/ \E s \in Sockets, a \in Addrs : bind(s, a[1], a[2]) /\ SocketsOnly
  \/ \E s \in Sockets, a \in Addrs : connect(s, a[1], a[2]) /\ SocketsOnly
  \/ \E s \in Sockets : close(s) /\ SocketsOnly

SpecCopies == Init /\ [][NextCopies]_vars

\* get_addr_info(), line 237: addrinfo_ of s after a bind or connect call
\* that ran as last' tells.  It takes the resolution of that call's host_
\* and port_ when ::getaddrinfo succeeded.
get_addr_info_memcpy(s) ==
  IF "getaddrinfo" \in Issued(last'.calls) /\ ResultOf(last'.calls, "getaddrinfo").rc = 0
    THEN <<host_'[s], port_'[s]>>
    ELSE addrinfo_[s]

\* create_socket(), line 253: v_addrinfo_ of s after that call.  It takes
\* the candidate of addrinfo_ only when ::socket made a new descriptor; the
\* early return of line 245 leaves it as it was.
create_socket_memcpy(s) ==
  IF "socket" \in Issued(last'.calls) /\ ResultOf(last'.calls, "socket").rc # -1
    THEN get_addr_info_memcpy(s)
    ELSE v_addrinfo_[s]

\* The address members after a bind or connect call on s.
Resolve(s) ==
  /\ addrinfo_' = [addrinfo_ EXCEPT ![s] = get_addr_info_memcpy(s)]
  /\ v_addrinfo_' = [v_addrinfo_ EXCEPT ![s] = create_socket_memcpy(s)]

\* The address members of a socket that is constructed.
Zeroed(s) ==
  /\ addrinfo_' = [addrinfo_ EXCEPT ![s] = ZeroAddr]
  /\ v_addrinfo_' = [v_addrinfo_ EXCEPT ![s] = ZeroAddr]

\* bind, connect and close with the address members followed:
\* v_addrinfo_ is what lines 83 and 145 hand to ::bind and ::connect.
NextAddr ==
  \/ \E s \in Sockets : socket_default(s) /\ Zeroed(s) /\ UNCHANGED rvars
  \/ \E s \in Sockets, a \in Addrs : bind(s, a[1], a[2]) /\ Resolve(s) /\ UNCHANGED rvars
  \/ \E s \in Sockets, a \in Addrs : connect(s, a[1], a[2]) /\ Resolve(s) /\ UNCHANGED rvars
  \/ \E s \in Sockets : close(s) /\ UNCHANGED <<avars, rvars>>

SpecAddr == Init /\ [][NextAddr]_vars

\* One socket's life under bind, connect and close alone.
NextRoles ==
  \/ \E s \in Sockets : socket_default(s) /\ SocketsOnly
  \/ \E s \in Sockets, a \in Addrs : bind(s, a[1], a[2]) /\ SocketsOnly
  \/ \E s \in Sockets, a \in Addrs : connect(s, a[1], a[2]) /\ SocketsOnly
  \/ \E s \in Sockets : close(s) /\ SocketsOnly

SpecRoles == Init /\ [][NextRoles]_vars

----------------------------------------------------------------------------
\* tcp::server.  Its member socket_ is socket object 1; the local client of
\* process() is another object of the pool.

\* tools::BUFFER_SIZE
BUFFER_SIZE == 8096

\* Longest byte string a peer sends in one piece.
MaxMsg == 2

\* The bytes a peer sends: a letter, the line feed, the NUL byte.
Bytes == {"P", "\n", "NUL"}

\* The byte strings ::recv can deliver when it returns a positive count.
Msgs == UNION {[1..n -> Bytes] : n \in 1..MaxMsg}

\* What the function registered with on_accept does with the client socket
\* it is handed: leaves it open, closes it, or throws.
Callbacks == {"keep", "close", "throw"}

\* The server's own socket.
socket_ == 1

\* Position of the first NUL byte of m, 0 when it has none.
FirstNul(m) ==
  IF \E i \in 1..Len(m) : m[i] = "NUL"
    THEN CHOOSE i \in 1..Len(m) : m[i] = "NUL" /\ \A j \in 1..(i - 1) : m[j] # "NUL"
    ELSE 0

\* std::string cmd(rcv.data()): rcv is the vector of size_to_read zero bytes
\* that ::recv wrote m into; the constructor reads up to the first NUL.  In
\* a full buffer without a NUL it reads past the end.
c_str(m) ==
  IF FirstNul(m) # 0 THEN [overrun |-> FALSE, str |-> SubSeq(m, 1, FirstNul(m) - 1)]
  ELSE IF Len(m) < BUFFER_SIZE THEN [overrun |-> FALSE, str |-> m]
  ELSE [overrun |-> TRUE, str |-> m]

\* An erase that would strip the last byte only when it is a line feed.
erase_last_if_newline(str) ==
  IF str[Len(str)] = "\n" THEN SubSeq(str, 1, Len(str) - 1) ELSE str

\* cmd.erase(cmd.end() - 1) on a non-empty string.
erase_last(str) == SubSeq(str, 1, Len(str) - 1)

\* response("Executing command [") += cmd += "] ...\n"
Response(cmd) == <<"Executing command [">> \o cmd \o <<"] ...\n">>

\* Lines 329-333 on the received bytes m: the command and the response, or
\* undefined behaviour (cmd.end() - 1 of an empty string, a read past the
\* buffer).
parse(m) ==
  LET c == c_str(m) IN
    IF c.overrun \/ c.str = <<>>
      THEN [ub |-> TRUE, cmd |-> <<>>, response |-> Response(<<>>)]
      ELSE [ub |-> FALSE, cmd |-> erase_last(c.str), response |-> Response(erase_last(c.str))]

\* The server can be called: it is constructed and the program goes on.
Serving == server = "alive" /\ ~Terminated

\* Thread t's call returns or throws: its place is free again, its locals
\* stay as the call left them.
Finish(t, f, op, exc, site) ==
  /\ frame' = [frame EXCEPT ![t] = [f EXCEPT !.pc = "idle"]]
  /\ result' = [result EXCEPT ![t] =
                  [op |-> op, exc |-> exc, site |-> site,
                   again |-> (op = "stop" /\ result[t].op = "stop")]]

\* Thread t goes on to the next statement of run()/process().
Goto(t, f, pc) ==
  /\ frame' = [frame EXCEPT ![t] = [f EXCEPT !.pc = pc]]
  /\ UNCHANGED result

\* An exception leaves process() while client is alive: the stack is
\* unwound through client's destructor.
Unwind(t, f, exc, site) ==
  Goto(t, [f EXCEPT !.exc = exc, !.site = site], "leave")

\* Frame f after a call on client that ran as last' tells: one ::close more
\* when the call issued one.
Closed(f) ==
  [f EXCEPT !.closes = @ + (IF "close" \in Issued(last'.calls) THEN 1 ELSE 0)]

\* The same, with the statement that made the call added to the trace.
Called(f, step) == [Closed(f) EXCEPT !.trace = Append(@, step)]

\* server(void): is_running_(false), callback_(nullptr), and the member
\* socket_ default-constructed.
server_ctor ==
  /\ server = "none"
  /\ socket_default(socket_)
  /\ server' = "alive"
  /\ is_running_' = FALSE
  /\ callback_' = "null"
  /\ UNCHANGED <<avars, frame, result>>

\* void on_accept(callback)
on_accept(t, cb) ==
  /\ Serving /\ frame[t].pc = "idle"
  /\ callback_' = cb
  /\ UNCHANGED <<svars, avars, server, is_running_, frame, result>>

\* The statements of run() and process() in an order that would invoke the
\* callback before the response is sent.
after_callback_before_send(pc) ==
  CASE pc = "guard" -> "bind"
    [] pc = "bind" -> "listen"
    [] pc = "listen" -> "mark"
    [] pc = "mark" -> "accept"
    [] pc = "accept" -> "receive"
    [] pc = "receive" -> "parse"
    [] pc = "parse" -> "callback"
    [] pc = "callback" -> "send"
    [] pc = "send" -> "leave"

\* The statement that follows each statement of run() (lines 307-313) and
\* of process() (lines 327-336) when it does not throw.
after(pc) ==
  CASE pc = "guard" -> "bind"
    [] pc = "bind" -> "listen"
    [] pc = "listen" -> "mark"
    [] pc = "mark" -> "accept"
    [] pc = "accept" -> "receive"
    [] pc = "receive" -> "parse"
    [] pc = "parse" -> "send"
    [] pc = "send" -> "callback"
    [] pc = "callback" -> "leave"

\* run(): the test of line 307.
run_guard == is_running_

\* run(): what line 308 throws (__RUNTIME_ERROR__).
run_guard_error == "runtime_error"

\* void run(const std::string &host, unsigned int port): the call and its
\* test of is_running_.
run(t, h, p) ==
  /\ Serving /\ frame[t].pc = "idle"
  /\ IF run_guard
       THEN Finish(t, frame[t], "run", run_guard_error, "run")
       ELSE Goto(t, [IdleFrame EXCEPT !.host = h, !.port = p], after("guard"))
  /\ UNCHANGED <<svars, avars, server, is_running_, callback_>>

\* socket_.bind(host, port);
run_bind(t) ==
  /\ Serving /\ frame[t].pc = "bind"
  /\ bind(socket_, frame[t].host, frame[t].port)
  /\ LET f == [frame[t] EXCEPT !.trace = Append(@, "bind")] IN
       IF last'.exc = "none"
         THEN Goto(t, f, after("bind"))
         ELSE Finish(t, f, "run", last'.exc, last'.site)
  /\ UNCHANGED <<avars, server, is_running_, callback_>>

\* socket_.listen(tools::BACKLOG);
run_listen(t) ==
  /\ Serving /\ frame[t].pc = "listen"
  /\ listen(socket_)
  /\ LET f == [frame[t] EXCEPT !.trace = Append(@, "listen")] IN
       IF last'.exc = "none"
         THEN Goto(t, f, after("listen"))
         ELSE Finish(t, f, "run", last'.exc, last'.site)
  /\ UNCHANGED <<avars, server, is_running_, callback_>>

\* is_running_ = true;
run_mark(t) ==
  /\ Serving /\ frame[t].pc = "mark"
  /\ is_running_' = TRUE
  /\ Goto(t, [frame[t] EXCEPT !.trace = Append(@, "mark")], after("mark"))
  /\ UNCHANGED <<svars, avars, server, callback_>>

\* auto client = socket_.accept();  The peer is at address a; client is
\* object c.
process_accept(t, c, a) ==
  /\ Serving /\ frame[t].pc = "accept" /\ c # socket_
  /\ accept(socket_, c, a[1], a[2])
  /\ LET f == [frame[t] EXCEPT !.trace = Append(@, "accept")] IN
       IF last'.exc = "none"
         THEN Goto(t, [f EXCEPT !.client = c, !.client_fd = fd_'[c]], after("accept"))
         ELSE Finish(t, f, "run", last'.exc, last'.site)
  /\ UNCHANGED <<avars, server, is_running_, callback_>>

\* auto rcv = client.receive(tools::BUFFER_SIZE);  A positive count is some
\* byte string m of the peer, a zero count leaves the buffer zeroed.
process_receive(t) ==
  /\ Serving /\ frame[t].pc = "receive"
  /\ receive(frame[t].client)
  /\ LET f == Called(frame[t], "receive") IN
       IF last'.exc = "none"
         THEN \E m \in (IF ResultOf(last'.calls, "recv").rc = 0 THEN {<<>>} ELSE Msgs) :
                Goto(t, [f EXCEPT !.rcv = m], after("receive"))
         ELSE Unwind(t, f, last'.exc, last'.site)
  /\ UNCHANGED <<avars, server, is_running_, callback_>>

\* Lines 329-333.  Undefined behaviour either ends the program or goes on
\* with an empty command.
process_parse(t) ==
  /\ Serving /\ frame[t].pc = "parse"
  /\ LET r == parse(frame[t].rcv) IN
       \/ /\ Goto(t, [frame[t] EXCEPT !.cmd = r.cmd, !.response = r.response], after("parse"))
          /\ UNCHANGED server
       \/ /\ r.ub
          /\ server' = "crashed"
          /\ UNCHANGED <<frame, result>>
  /\ UNCHANGED <<svars, avars, is_running_, callback_>>

\* client.send(response);
process_send(t) ==
  /\ Serving /\ frame[t].pc = "send"
  /\ send(frame[t].client)
  /\ LET f == Called(frame[t], "send") IN
       IF last'.exc = "none"
         THEN Goto(t, [f EXCEPT !.sent = f.response], after("send"))
         ELSE Unwind(t, f, last'.exc, last'.site)
  /\ UNCHANGED <<avars, server, is_running_, callback_>>

\* if (callback_) callback_(cmd, client);
process_callback(t) ==
  /\ Serving /\ frame[t].pc = "callback"
  /\ UNCHANGED <<avars, server, is_running_, callback_>>
  /\ LET f == [frame[t] EXCEPT !.trace = Append(@, "callback"), !.called_with = frame[t].cmd] IN
       CASE callback_ = "null" ->
              /\ Goto(t, frame[t], after("callback"))
              /\ UNCHANGED svars
         [] callback_ = "keep" ->
              /\ Goto(t, f, after("callback"))
              /\ UNCHANGED svars
         [] callback_ = "throw" ->
              /\ Unwind(t, f, "callback_error", "callback")
              /\ UNCHANGED svars
         [] callback_ = "close" ->
              /\ close(frame[t].client)
              /\ IF last'.exc = "none"
                   THEN Goto(t, Closed(f), after("callback"))
                   ELSE Unwind(t, Closed(f), last'.exc, last'.site)

\* A scope exit that would let client go without its destructor's close().
client_dtor_without_close(c) ==
  /\ ~Terminated /\ alive[c]
  /\ Return("dtor", c, 0, "none", "none", <<>>)
  /\ alive' = [alive EXCEPT ![c] = FALSE]
  /\ fd_' = [fd_ EXCEPT ![c] = NoFd]
  /\ host_' = [host_ EXCEPT ![c] = DefaultHost]
  /\ port_' = [port_ EXCEPT ![c] = DefaultPort]
  /\ is_socket_bound_' = [is_socket_bound_ EXCEPT ![c] = FALSE]
  /\ hist' = [hist EXCEPT ![c] = NoHist]
  /\ UNCHANGED os

\* The end of client's scope (line 336): ~socket on it.
client_dtor(c) == socket_dtor(c)

\* process() and run() are left, normally or by the exception under way;
\* client is destroyed first.  An exception out of the destructor ends the
\* program.
process_leave(t) ==
  /\ Serving /\ frame[t].pc = "leave"
  /\ client_dtor(frame[t].client)
  /\ IF last'.exc = "terminate"
       THEN UNCHANGED <<frame, result>>
       ELSE Finish(t, [Closed(frame[t]) EXCEPT !.client = 0],
                   "run", frame[t].exc, frame[t].site)
  /\ UNCHANGED <<avars, server, is_running_, callback_>>

\* stop() without its test.
stop_guard_missing == FALSE

\* stop(): the test of line 318.
stop_guard == ~is_running_

\* The body of stop(): lines 318-321.  When close() throws, line 321 is not
\* reached.
stop_body ==
  IF stop_guard
    THEN UNCHANGED <<svars, is_running_>>
    ELSE /\ close(socket_)
         /\ is_running_' = IF last'.exc = "none" THEN FALSE ELSE is_running_

\* The body of stop() has thrown in this step.
stop_threw == ~stop_guard /\ last'.exc # "none"

\* void stop(void)
stop(t) ==
  /\ Serving /\ frame[t].pc = "idle"
  /\ stop_body
  /\ IF stop_threw
       THEN Finish(t, frame[t], "stop", last'.exc, last'.site)
       ELSE Finish(t, frame[t], "stop", "none", "none")
  /\ UNCHANGED <<avars, server, callback_>>

\* ~server(void) { stop(); }  An exception out of it ends the program.
server_dtor ==
  /\ Serving /\ \A t \in Threads : frame[t].pc = "idle"
  /\ stop_body
  /\ server' = IF stop_threw THEN "terminated" ELSE "destroying"
  /\ UNCHANGED <<avars, callback_, frame, result>>

\* The members of the server are destroyed after the destructor's body:
\* ~socket on socket_.
server_dtor_members ==
  /\ server = "destroying" /\ ~Terminated
  /\ socket_dtor(socket_)
  /\ IF last'.exc = "terminate"
       THEN /\ server' = "terminated"
            /\ UNCHANGED <<is_running_, callback_>>
       ELSE /\ server' = "none"
            /\ is_running_' = FALSE
            /\ callback_' = "null"
  /\ UNCHANGED <<avars, frame, result>>

\* Two threads are about to call a member of socket_ at once: a data race.
\* The calls run one after the other (the steps above), or the program
\* ends.
run_race(t) ==
  /\ Serving
  /\ frame[t].pc \in {"bind", "listen", "accept"}
  /\ \E u \in Threads \ {t} : frame[u].pc \in {"bind", "listen", "accept"}
  /\ server' = "crashed"
  /\ UNCHANGED <<svars, avars, is_running_, callback_, frame, result>>

\* The thread of the single-threaded callers.
Caller == "t1"

\* One server used from one thread: constructed, given callbacks, run,
\* stopped and destroyed.
NextServer ==
  \/ server_ctor
  \/ \E cb \in Callbacks : on_accept(Caller, cb)
  \/ \E a \in Addrs : run(Caller, a[1], a[2])
  \/ run_bind(Caller)
  \/ run_listen(Caller)
  \/ run_mark(Caller)
  \/ \E c \in Sockets, a \in Addrs : process_accept(Caller, c, a)
  \/ process_receive(Caller)
  \/ process_parse(Caller)
  \/ process_send(Caller)
  \/ process_callback(Caller)
  \/ process_leave(Caller)
  \/ stop(Caller)
  \/ server_dtor
  \/ server_dtor_members

SpecServer == Init /\ [][NextServer]_vars

\* One server run from two threads at once.
NextRace ==
  \/ server_ctor
  \/ \E t \in Threads, a \in Addrs : run(t, a[1], a[2])
  \/ \E t \in Threads : run_bind(t)
  \/ \E t \in Threads : run_listen(t)
  \/ \E t \in Threads : run_mark(t)
  \/ \E t \in Threads, c \in Sockets, a \in Addrs : process_accept(t, c, a)
  \/ \E t \in Threads : process_receive(t)
  \/ \E t \in Threads : process_parse(t)
  \/ \E t \in Threads : process_send(t)
  \/ \E t \in Threads : process_callback(t)
  \/ \E t \in Threads : process_leave(t)
  \/ \E t \in Threads : run_race(t)

SpecRace == Init /\ [][NextRace]_vars

----------------------------------------------------------------------------
\* Properties.

\* ::recv's result in the last call, when the last call made one.
LastRecv == ResultOf(last.calls, "recv")

\* C1: once a bind has succeeded on a socket, whatever was called on it
\* since (close, listen, accept, failed calls), connect throws the logic
\* error of line 135 and makes no OS call: neither ::getaddrinfo nor
\* ::connect is reached.
C1_ConnectOnBoundRejected ==
  (last.op = "connect" /\ hist[last.sock].bind) =>
    /\ last.exc = "logic_error"
    /\ last.site = "connect"
    /\ last.calls = <<>>

\* A connect was rejected on a socket that was bound and then closed.
C1_Witness ==
  /\ last.op = "connect" /\ last.exc = "logic_error"
  /\ hist[last.sock].bind /\ fd_[last.sock] = NoFd

\* C2: listen on a socket on which no bind has succeeded throws the logic
\* error of line 91 and does not call ::listen.
C2_ListenBeforeBindRejected ==
  (last.op = "listen" /\ ~hist[last.sock].bind) =>
    /\ last.exc = "logic_error"
    /\ last.site = "listen"
    /\ last.calls = <<>>

\* A listen was rejected on a socket that holds an open descriptor no bind
\* succeeded on (a bind or a connect failed after creating it).
C2_Witness ==
  /\ last.op = "listen" /\ last.exc = "logic_error"
  /\ fd_[last.sock] # NoFd /\ OsState(fd_[last.sock]) = "fresh"

\* C3: send and receive on a socket whose fd_ is -1 throw a logic error,
\* make no OS call and leave fd_, host_, port_ and is_socket_bound_ as
\* they were.
C3_IoOnUnopenedRejected ==
  [][\A s \in Sockets :
       (last'.op \in {"send", "receive"} /\ last'.sock = s /\ fd_[s] = NoFd) =>
         /\ last'.exc = "logic_error"
         /\ last'.calls = <<>>
         /\ fd_'[s] = fd_[s]
         /\ host_'[s] = host_[s]
         /\ port_'[s] = port_[s]
         /\ is_socket_bound_'[s] = is_socket_bound_[s]]_vars

\* A receive was rejected on a socket that had connected and is unopened
\* again (after a close, or after a zero-length receive).
C3_Witness ==
  /\ last.op = "receive" /\ last.exc = "logic_error"
  /\ hist[last.sock].connect /\ fd_[last.sock] = NoFd

\* C4: of two close calls in succession on one socket the second does not
\* throw, and fd_ is -1 after the first and after the second.
C4_CloseTwice ==
  [][(last.op = "close" /\ last'.op = "close" /\ last'.sock = last.sock /\ last'.again) =>
       /\ last'.exc = "none"
       /\ fd_[last.sock] = NoFd
       /\ fd_'[last.sock] = NoFd]_vars

\* C5: after every close call on a socket that held a descriptor, whether
\* ::close succeeded or failed, fd_ is -1.
C5_CloseLeavesUnopened ==
  (last.op = "close" /\ last.calls # <<>>) => fd_[last.sock] = NoFd

\* C6: a bind that fails on a socket whose fd_ was -1 leaves fd_ at -1, no
\* new descriptor open and is_socket_bound_ false.
C6_FailedBindLeavesUnopened ==
  [][\A s \in Sockets :
       (last'.op = "bind" /\ last'.sock = s /\ last'.exc # "none" /\ fd_[s] = NoFd) =>
         /\ fd_'[s] = NoFd
         /\ os' = os
         /\ ~is_socket_bound_'[s]]_vars

\* C7 as stated: when ::recv returns 0, receive returns normally and fd_ is
\* -1 afterwards; when it returns -1, receive throws the receive error and
\* does not close the socket.
C7_ZeroReadAlwaysReturns ==
  (last.op = "receive" /\ last.calls # <<>>) =>
    /\ LastRecv.rc = 0 => (last.exc = "none" /\ fd_[last.sock] = NoFd)
    /\ LastRecv.rc = -1 =>
         /\ last.exc = "runtime_error" /\ last.site = "recv"
         /\ "close" \notin Issued(last.calls)
         /\ fd_[last.sock] # NoFd

\* C7 amended: when ::recv returns 0, receive calls ::close on the
\* descriptor; if that succeeds receive returns normally and fd_ is -1, and
\* if it fails receive throws the close error.  When ::recv returns -1,
\* receive throws the receive error and does not close the socket.
C7_ZeroReadCloses ==
  (last.op = "receive" /\ last.calls # <<>>) =>
    /\ LastRecv.rc = 0 =>
         /\ "close" \in Issued(last.calls)
         /\ ResultOf(last.calls, "close").rc = 0 =>
              (last.exc = "none" /\ fd_[last.sock] = NoFd)
         /\ ResultOf(last.calls, "close").rc = -1 =>
              (last.exc = "runtime_error" /\ last.site = "close")
    /\ LastRecv.rc = -1 =>
         /\ last.exc = "runtime_error" /\ last.site = "recv"
         /\ "close" \notin Issued(last.calls)
         /\ fd_[last.sock] # NoFd

\* A receive read zero bytes, closed the socket and returned.
C7_Witness ==
  /\ last.op = "receive" /\ last.calls # <<>>
  /\ LastRecv.rc = 0 /\ last.exc = "none" /\ fd_[last.sock] = NoFd

\* C8 as stated: no socket object has both a successful bind and a
\* successful connect in its life.
C8_NeverBothRoles ==
  \A s \in Sockets : ~(hist[s].bind /\ hist[s].connect)

\* C8 amended: no connect succeeds on a socket after a bind succeeded on it
\* (the other order, connect then close then bind, is possible).
C8_NoConnectAfterBind ==
  \A s \in Sockets : ~hist[s].connect_after_bind

\* A connect was rejected on a socket on which first a connect and later a
\* bind had succeeded.
C8_Witness ==
  /\ last.op = "connect" /\ last.exc = "logic_error"
  /\ hist[last.sock].connect /\ hist[last.sock].bind

\* C9: a copy holds the descriptor value of its source and the OS makes no
\* new descriptor for it; a close or a destruction changes the fd_ of no
\* other object, and calls ::close on the object's fd_ whenever that is not
\* -1, whatever the OS's state of that descriptor (closed already through
\* another copy, or opened since by another socket).
C9_CopiesShareDescriptor ==
  [][\A s \in Sockets :
       /\ (last'.op \in {"copy", "assign"} /\ last'.sock = s) =>
            (fd_'[s] = fd_[last'.arg] /\ os' = os)
       /\ (last'.op \in {"close", "dtor"} /\ last'.sock = s) =>
            /\ \A t \in Sockets \ {s} : fd_'[t] = fd_[t]
            /\ fd_[s] # NoFd => Issued(last'.calls) = {"close"}]_vars

\* A double close: the close of a copy got EBADF from ::close, the object
\* it was copied from having closed the descriptor before.
C9_Witness ==
  \E t \in Sockets \ {last.sock} :
    /\ last.op = "close" /\ last.calls = <<Err("close", "EBADF")>> /\ ~last.again
    /\ hist[last.sock].copy /\ fd_[last.sock] # NoFd
    /\ alive[t] /\ ~hist[t].copy /\ fd_[t] = NoFd
    /\ host_[t] = host_[last.sock] /\ port_[t] = port_[last.sock]
    /\ is_socket_bound_[t] = is_socket_bound_[last.sock]

\* C10: accept on a socket whose is_socket_bound_ is false is rejected by
\* the socket: it throws a logic error, does not call ::accept and returns
\* no socket.
C10_AcceptGated ==
  (last.op = "accept" /\ ~is_socket_bound_[last.sock]) =>
    /\ last.exc = "logic_error"
    /\ last.calls = <<>>
    /\ last.arg = 0

\* C11: of the threads that call run on one server at the same time, at
\* most one is past the test of is_running_ (between the test and the end
\* of its call): the test and the setting of the flag are one atomic step.
C11_OneRunPastGuard ==
  Cardinality({t \in Threads : frame[t].pc # "idle"}) <= 1

\* C12: run called while is_running_ is true throws the error kind of the
\* sequencing errors (the logic error listen-before-bind and
\* connect-on-bound throw), and leaves the sockets and the flag as they
\* were.
C12_RunWhileRunningIsSequencingError ==
  [][\A t \in Threads :
       (is_running_ /\ frame[t].pc = "idle"
          /\ result'[t].op = "run" /\ result'[t] # result[t]) =>
         /\ result'[t].exc = "logic_error"
         /\ UNCHANGED <<svars, is_running_>>]_vars

\* C13: a run call that follows a run call which returned normally, with no
\* stop in between, goes on to bind instead of throwing at the test of
\* is_running_.
C13_RunAgainAfterReturn ==
  [][\A t \in Threads :
       (frame[t].pc = "idle" /\ result[t].op = "run" /\ result[t].exc = "none"
          /\ result'[t].op = "run"
          /\ (frame'[t] # frame[t] \/ result'[t] # result[t])) =>
         frame'[t].pc = "bind"]_vars

\* C17: after a connect that returned normally, the address ::connect was
\* given (v_addrinfo_, line 145) is the one resolved from that call's host
\* and port, which host_ and port_ name; also when the socket held a
\* descriptor left open by an earlier failed connect or bind.
C17_ConnectUsesCallAddress ==
  (last.op = "connect" /\ last.exc = "none") =>
    v_addrinfo_[last.sock] = <<host_[last.sock], port_[last.sock]>>

\* C19: every descriptor that is open in the OS is the fd_ of a live socket
\* object; an accept that fails at getnameinfo leaves no descriptor open
\* without such an owner.
C19_OpenDescriptorsOwned ==
  \A f \in Fds : os[f] # "closed" => \E s \in Sockets : alive[s] /\ fd_[s] = f

\* The statements of a run call that make a call or set the flag, in the
\* order of lines 310-335.
RunOrder == <<"bind", "listen", "mark", "accept", "receive", "send", "callback">>

\* C14: the statements a run call past its test has made so far are the
\* first ones of: one bind, one listen, the marking as running, one accept,
\* one receive on the accepted socket, one send of the response, one call
\* of the callback; and the callback has been called only after the send
\* of the response returned.  No run call makes a second accept.
C14_RunOrder ==
  \A t \in Threads :
    LET tr == frame[t].trace IN
      /\ Len(tr) <= Len(RunOrder)
      /\ tr = SubSeq(RunOrder, 1, Len(tr))
      /\ (frame[t].pc # "idle" /\ Len(tr) >= 3) => is_running_
      /\ (\E i \in 1..Len(tr) : tr[i] = "callback") => frame[t].sent # <<>>

\* A run call went through every statement, the callback included, and
\* returned.
C14_Witness ==
  /\ frame[Caller].pc = "idle" /\ frame[Caller].trace = RunOrder
  /\ result[Caller].op = "run" /\ result[Caller].exc = "none"

\* C15 as stated: a stop on a server that is not running changes nothing;
\* a stop on a running server leaves fd_ of socket_ at -1, its descriptor
\* closed and is_running_ false; a stop that follows a stop returns
\* normally and changes nothing.
C15_StopAlwaysStops ==
  [][\A t \in Threads :
       (frame[t].pc = "idle" /\ result'[t].op = "stop" /\ result'[t] # result[t]) =>
         /\ ~is_running_ =>
              (result'[t].exc = "none" /\ UNCHANGED <<svars, avars, server, is_running_, callback_, frame>>)
         /\ is_running_ =>
              /\ result'[t].exc = "none"
              /\ fd_'[socket_] = NoFd /\ ~is_running_'
              /\ fd_[socket_] # NoFd => os'[fd_[socket_]] = "closed"
         /\ result'[t].again =>
              (result'[t].exc = "none" /\ UNCHANGED <<svars, avars, server, is_running_, callback_, frame>>)]_vars

\* C15 amended: a stop on a server that is not running changes nothing; a
\* stop on a running server calls close on socket_: when close returns, fd_
\* of socket_ is -1, its descriptor is closed and is_running_ is false, and
\* when close throws (::close failed), stop throws that error and
\* is_running_ stays true; a stop that follows a stop which returned
\* normally returns normally and changes nothing.
C15_StopStopsUnlessCloseFails ==
  [][\A t \in Threads :
       (frame[t].pc = "idle" /\ result'[t].op = "stop" /\ result'[t] # result[t]) =>
         /\ ~is_running_ =>
              (result'[t].exc = "none" /\ UNCHANGED <<svars, avars, server, is_running_, callback_, frame>>)
         /\ is_running_ =>
              /\ last'.op = "close" /\ last'.sock = socket_
              /\ last'.exc = "none" =>
                   /\ result'[t].exc = "none"
                   /\ fd_'[socket_] = NoFd /\ ~is_running_'
                   /\ fd_[socket_] # NoFd => os'[fd_[socket_]] = "closed"
              /\ last'.exc # "none" =>
                   /\ result'[t].exc = "runtime_error" /\ result'[t].site = "close"
                   /\ is_running_'
         /\ (result'[t].again /\ result[t].exc = "none") =>
              (result'[t].exc = "none" /\ UNCHANGED <<svars, avars, server, is_running_, callback_, frame>>)]_vars

\* A second stop in succession returned after the first had closed the
\* listening descriptor of a server that had served a client.
C15_Witness ==
  /\ result[Caller].op = "stop" /\ result[Caller].again /\ result[Caller].exc = "none"
  /\ ~is_running_ /\ fd_[socket_] = NoFd
  /\ last.op = "close" /\ last.sock = socket_ /\ last.calls = <<Ok("close")>>
  /\ frame[Caller].trace = RunOrder

\* C16: when the bytes received are not empty, shorter than the buffer and
\* without a NUL, the command given to the callback is these bytes less
\* the last one, and the response sent is "Executing command [", the
\* command, "] ...\n".
C16_CommandAndResponse ==
  \A t \in Threads :
    LET m == frame[t].rcv
        tr == frame[t].trace IN
      (m # <<>> /\ Len(m) < BUFFER_SIZE /\ \A i \in 1..Len(m) : m[i] # "NUL") =>
        /\ frame[t].sent # <<>> =>
             frame[t].sent = <<"Executing command [">> \o SubSeq(m, 1, Len(m) - 1)
                               \o <<"] ...\n">>
        /\ (\E i \in 1..Len(tr) : tr[i] = "callback") =>
             frame[t].called_with = SubSeq(m, 1, Len(m) - 1)

\* "P\n" was received, "Executing command [P] ...\n" was sent and the
\* callback was called with "P".
C16_Witness ==
  /\ frame[Caller].rcv = <<"P", "\n">>
  /\ frame[Caller].sent = <<"Executing command [", "P", "] ...\n">>
  /\ frame[Caller].called_with = <<"P">>
  /\ frame[Caller].trace = RunOrder

\* C18: when the server is in no call and is_running_ is false (at first,
\* after a stop, after a run that failed in bind or listen), the fd_ of
\* socket_ is -1.
C18_NotRunningMeansUnopened ==
  (server = "alive" /\ ~Terminated /\ ~is_running_
     /\ \A t \in Threads : frame[t].pc = "idle") =>
    fd_[socket_] = NoFd

\* C20: when run has returned or thrown after accept returned a client,
\* the client's descriptor is closed and exactly one ::close was issued on
\* it in that run, by the callback, by receive, or by client's destructor.
C20_ClientClosedOnce ==
  \A t \in Threads :
    (frame[t].pc = "idle" /\ result[t].op = "run" /\ frame[t].client_fd # NoFd) =>
      /\ os[frame[t].client_fd] = "closed"
      /\ frame[t].closes = 1

\* A run returned whose callback had closed the client: the destructor of
\* client issued no second ::close.
C20_Witness ==
  /\ frame[Caller].pc = "idle" /\ result[Caller].op = "run" /\ result[Caller].exc = "none"
  /\ callback_ = "close" /\ frame[Caller].trace = RunOrder
  /\ frame[Caller].client_fd # NoFd /\ frame[Caller].closes = 1
  /\ last.op = "dtor" /\ last.calls = <<>>

====
